---------------------------- MODULE Spec2Model ----------------------------
(***************************************************************************)
(* StudyCoach backend (src/main.py): the document endpoints, the response  *)
(* assembler and the heuristic text pipeline (normalizer, sentence         *)
(* segmenter, term extractor, block summarizer, multiple-choice            *)
(* generator).                                                             *)
(*                                                                         *)
(* A text is a sequence of characters; a character is a one-character      *)
(* string, or the name of its code point ("U+061F") for the Arabic block.  *)
(***************************************************************************)
EXTENDS Integers, Sequences, FiniteSets, TLC

(***************************************************************************)
(* Character classes of the regular expressions in src/main.py.            *)
(***************************************************************************)
LowerSeq ==
    <<"a","b","c","d","e","f","g","h","i","j","k","l","m",
      "n","o","p","q","r","s","t","u","v","w","x","y","z">>

UpperSeq ==
    <<"A","B","C","D","E","F","G","H","I","J","K","L","M",
      "N","O","P","Q","R","S","T","U","V","W","X","Y","Z">>

Range(s) == {s[i] : i \in DOMAIN s}

LowerLetters == Range(LowerSeq)

UpperLetters == Range(UpperSeq)

Digits == {"0","1","2","3","4","5","6","7","8","9"}

\* Arabic letters used by the documents (beh, meem).
ArabicLetters == {"U+0628", "U+0645"}

\* U+061F, the Arabic question mark.
ArabicQuestionMark == "U+061F"

\* \u0600-\u06FF: the whole block, the question mark U+061F included.
ArabicBlock == ArabicLetters \cup {ArabicQuestionMark}

SpaceChars == {" ", "\n", "\t"}

TerminalChars == {".", "!", "?", ArabicQuestionMark}

TermStartChars == LowerLetters \cup UpperLetters \cup ArabicBlock

TermChars == TermStartChars \cup Digits \cup {"_", "'", "-"}

WordChars == LowerLetters \cup UpperLetters \cup Digits \cup ArabicLetters \cup {"_"}

\* \s
IsSpace(c) == c \in SpaceChars

\* [\.\!\?\u061F]
IsTerminal(c) == c \in TerminalChars

\* [A-Za-z\u0600-\u06FF]
IsTermStart(c) == c \in TermStartChars

\* [A-Za-z0-9_\u0600-\u06FF'-]
IsTermChar(c) == c \in TermChars

\* \w of a str pattern: letters, digits and the underscore (U+061F is
\* punctuation, not a word character).
IsWordChar(c) == c \in WordChars

\* str.lower() on one character.
LowerChar(c) ==
    IF c \in UpperLetters
    THEN LowerSeq[CHOOSE i \in DOMAIN UpperSeq : UpperSeq[i] = c]
    ELSE c

\* str.lower()
Lower(s) == [i \in DOMAIN s |-> LowerChar(s[i])]

(***************************************************************************)
(* Sequence helpers.                                                       *)
(***************************************************************************)
Idx(n) == [i \in 1..n |-> i]

\* The least index in from..to that satisfies P, or to + 1 when none does.
First(from, to, P(_)) ==
    IF \E j \in from..to : P(j)
    THEN CHOOSE j \in from..to : P(j) /\ \A m \in from..(j - 1) : ~P(m)
    ELSE to + 1

\* The greatest index in 1..n that satisfies P, or 0 when none does.
Last(n, P(_)) == n - First(1, n, LAMBDA k : P(n + 1 - k)) + 1

\* str.strip()
Strip(s) ==
    LET lo == First(1, Len(s), LAMBDA i : ~IsSpace(s[i]))
        hi == Last(Len(s), LAMBDA i : ~IsSpace(s[i]))
    IN  SubSeq(s, lo, hi)

\* "sub in s"
Contains(s, sub) ==
    \E p \in 0..(Len(s) - Len(sub)) : SubSeq(s, p + 1, p + Len(sub)) = sub

\* s.endswith(suf)
EndsWith(s, suf) ==
    /\ Len(suf) <= Len(s)
    /\ SubSeq(s, Len(s) - Len(suf) + 1, Len(s)) = suf

(***************************************************************************)
(* clean_text: re.sub(r"\s+", " ", t or "").strip()                        *)
(***************************************************************************)
clean_text(t) ==
    LET lo   == First(1, Len(t), LAMBDA i : ~IsSpace(t[i]))
        hi   == Last(Len(t), LAMBDA i : ~IsSpace(t[i]))
        \* a character survives when it is not white space, or when it
        \* opens a run of white space that lies between two other characters
        keep == SelectSeq(Idx(Len(t)),
                    LAMBDA i : /\ lo <= i
                               /\ i <= hi
                               /\ (IsSpace(t[i]) => ~IsSpace(t[i - 1])))
    IN  [j \in DOMAIN keep |-> IF IsSpace(t[keep[j]]) THEN " " ELSE t[keep[j]]]

(***************************************************************************)
(* naive_sentences                                                         *)
(***************************************************************************)
\* The minimum length of a sentence: len(s.strip()) > 30.
MinSentenceLen == 30

\* re.split(r'(?<=[\.\!\?\u061F])\s+', text): a separator is a run of white
\* space that directly follows a terminal mark.
SplitParts(t) ==
    LET n     == Len(t)
        ends  == SelectSeq(Idx(n),
                     LAMBDA i : \/ i = n
                                \/ (IsTerminal(t[i]) /\ IsSpace(t[i + 1])))
        \* the part that ends at ends[j] starts after the separator that
        \* follows ends[j-1]
        start(j) ==
            IF j = 1 THEN 1
            ELSE First(ends[j - 1] + 1, n, LAMBDA i : ~IsSpace(t[i]))
        \* a text that ends inside a separator has a last, empty part
        last(j) == IF j = Len(ends) /\ start(j) = n + 1 THEN n ELSE ends[j]
    IN  IF n = 0 THEN << <<>> >>
        ELSE [j \in DOMAIN ends |-> SubSeq(t, start(j), last(j))]

\* naive_sentences that keeps a fragment of exactly MinSentenceLen characters.
naive_sentences_inclusive(text) ==
    LET parts    == SplitParts(text)
        stripped == [j \in DOMAIN parts |-> Strip(parts[j])]
    IN  SelectSeq(stripped, LAMBDA s : Len(s) >= MinSentenceLen)

naive_sentences(text) ==
    LET parts    == SplitParts(text)
        stripped == [j \in DOMAIN parts |-> Strip(parts[j])]
    IN  SelectSeq(stripped, LAMBDA s : Len(s) > MinSentenceLen)

(***************************************************************************)
(* top_terms                                                               *)
(***************************************************************************)
\* re.findall(r"[A-Za-z\u0600-\u06FF][A-Za-z0-9_\u0600-\u06FF'-]*", text):
\* the matches leftmost first, each as long as possible.  A match starts at
\* the first start character of a run of term characters and takes the rest
\* of the run.
FindWords(t) ==
    LET n == Len(t)
        runStart(i) == Last(i - 1, LAMBDA j : ~IsTermChar(t[j])) + 1
        starts == SelectSeq(Idx(n),
                      LAMBDA i : /\ IsTermStart(t[i])
                                 /\ (i = 1 \/ ~IsTermStart(t[i - 1]))
                                 /\ \A j \in runStart(i)..(i - 1) : ~IsTermStart(t[j]))
        end(s) == First(s + 1, n, LAMBDA j : ~IsTermChar(t[j])) - 1
    IN  [j \in DOMAIN starts |-> SubSeq(t, starts[j], end(starts[j]))]

\* The minimum length of a term: len(w) > 3.
MinTermLen == 3

\* stop
StopWords == {
    <<"t","h","i","s">>, <<"t","h","a","t">>, <<"w","i","t","h">>, <<"f","r","o","m">>,
    <<"y","o","u","r">>, <<"a","b","o","u","t">>, <<"t","h","e","s","e">>, <<"t","h","o","s","e">>,
    <<"w","h","i","c","h">>, <<"t","h","e","i","r">>, <<"h","a","v","e">>, <<"w","i","l","l">>,
    <<"t","h","e","r","e">>, <<"h","e","r","e">>, <<"w","h","e","r","e">>, <<"w","h","e","n">>,
    <<"t","h","e","n">>, <<"i","n","t","o">>, <<"o","v","e","r">>, <<"u","n","d","e","r">>,
    <<"a","l","s","o">>, <<"s","u","c","h">>, <<"t","h","a","n">>, <<"o","n","l","y">>,
    <<"v","e","r","y">>, <<"m","o","r","e">>, <<"m","o","s","t">>, <<"m","u","c","h">>,
    <<"m","a","n","y">>, <<"s","o","m","e">>, <<"b","e","e","n">>, <<"w","e","r","e">>,
    <<"w","h","a","t">>, <<"s","h","a","l","l">>, <<"s","h","o","u","l","d">>,
    <<"c","o","u","l","d">>, <<"w","o","u","l","d">>, <<"m","i","g","h","t">>, <<"m","u","s","t">>,
    <<"u","p","o","n">>, <<"b","e","t","w","e","e","n">>, <<"w","i","t","h","i","n">>
    }

\* SortedDesc with equal keys in decreasing order of position.
SortedDescLastFirst(keys) ==
    LET d    == Len(keys)
        rank == [p \in 1..d |->
                    1 + Cardinality({q \in 1..d : \/ keys[q] > keys[p]
                                                  \/ (keys[q] = keys[p] /\ q > p)})]
    IN  [r \in 1..d |-> CHOOSE p \in 1..d : rank[p] = r]

\* sorted(..., key, reverse=True) is stable: the positions of keys by
\* decreasing key, positions of equal keys in increasing order.
SortedDesc(keys) ==
    LET d    == Len(keys)
        rank == [p \in 1..d |->
                    1 + Cardinality({q \in 1..d : \/ keys[q] > keys[p]
                                                  \/ (keys[q] = keys[p] /\ q < p)})]
    IN  [r \in 1..d |-> CHOOSE p \in 1..d : rank[p] = r]

\* s[:k] for k >= 0
Take(s, k) == SubSeq(s, 1, IF k < Len(s) THEN k ELSE Len(s))

\* Counter(common).most_common(k): the distinct words by decreasing count,
\* words of equal count in the order of their first occurrence.
MostCommon(common, k) ==
    LET firsts == SelectSeq(Idx(Len(common)),
                      LAMBDA i : \A j \in 1..(i - 1) : common[j] # common[i])
        cnt    == [p \in DOMAIN firsts |->
                      Cardinality({j \in DOMAIN common : common[j] = common[firsts[p]]})]
        order  == SortedDesc(cnt)
        sorted == [r \in DOMAIN order |-> common[firsts[order[r]]]]
    IN  IF k <= 0 THEN <<>> ELSE Take(sorted, k)

\* top_terms without the stop-word filter.
top_terms_unfiltered(text, k) ==
    LET found  == FindWords(text)
        long   == SelectSeq(found, LAMBDA w : Len(w) > MinTermLen)
        words  == [i \in DOMAIN long |-> Lower(long[i])]
    IN  MostCommon(words, k)

top_terms(text, k) ==
    LET found  == FindWords(text)
        long   == SelectSeq(found, LAMBDA w : Len(w) > MinTermLen)
        words  == [i \in DOMAIN long |-> Lower(long[i])]
        common == SelectSeq(words, LAMBDA w : w \notin StopWords)
    IN  MostCommon(common, k)

\* re.search(rf"\b{re.escape(t)}\b", s, re.IGNORECASE)
IsBoundary(s, i) ==
    LET w(j) == j \in DOMAIN s /\ IsWordChar(s[j])
    IN  w(i - 1) # w(i)

SearchWord(s, t) ==
    \E p \in 1..(Len(s) - Len(t) + 1) :
        /\ \A j \in 1..Len(t) : LowerChar(s[p + j - 1]) = t[j]
        /\ IsBoundary(s, p)
        /\ IsBoundary(s, p + Len(t))

\* The score of a sentence in build_summary_blocks: the number of its words,
\* lower-cased, that are among the terms.
Score(s, terms) ==
    LET ws == FindWords(Lower(s))
    IN  Cardinality({i \in DOMAIN ws : ws[i] \in terms})

(***************************************************************************)
(* build_summary_blocks                                                    *)
(***************************************************************************)
\* max_blocks: int = 4
MaxBlocks == 4

\* bullets_per_block: int = 4
BulletsPerBlock == 4

\* top_terms(text, k=30)
SummaryTermCount == 30

\* SummaryBlock(title="...", bullets=["..."]) of the empty case
NoteBlock ==
    [title |-> [text |-> "note", num |-> 0], bullets |-> << <<"no-sentences">> >>]

\* TopSentences without the budget of max_blocks * bullets_per_block.
TopSentencesUncapped(sents, terms, max_blocks, bullets_per_block) ==
    LET score == [j \in DOMAIN sents |-> Score(sents[j], terms)]
        order == SortedDesc(score)
    IN  [r \in DOMAIN order |-> sents[order[r]]]

\* the sentences by decreasing score, at most max_blocks * bullets_per_block
TopSentences(sents, terms, max_blocks, bullets_per_block) ==
    LET score == [j \in DOMAIN sents |-> Score(sents[j], terms)]
        order == SortedDesc(score)
    IN  Take([r \in DOMAIN order |-> sents[order[r]]], max_blocks * bullets_per_block)

\* for i in range(0, len(top), bullets_per_block): ... (i counts from 0)
RECURSIVE BlocksFrom(_, _, _, _, _)
BlocksFrom(top, i, blocks, max_blocks, bullets_per_block) ==
    IF i >= Len(top) THEN blocks
    ELSE LET hi     == IF i + bullets_per_block < Len(top)
                       THEN i + bullets_per_block ELSE Len(top)
             chunk  == SubSeq(top, i + 1, hi)
             block  == [title   |-> [text |-> "key-ideas", num |-> Len(blocks) + 1],
                        bullets |-> [j \in DOMAIN chunk |-> clean_text(chunk[j])]]
             blocks2 == Append(blocks, block)
         IN  IF Len(blocks2) >= max_blocks THEN blocks2
             ELSE BlocksFrom(top, i + bullets_per_block, blocks2,
                             max_blocks, bullets_per_block)

\* The locals of build_summary_blocks at its return.
build_summary_blocks(text, max_blocks, bullets_per_block) ==
    LET sents == naive_sentences(text)
        terms == Range(top_terms(text, SummaryTermCount))
        top   == TopSentences(sents, terms, max_blocks, bullets_per_block)
    IN  IF sents = <<>>
        THEN [sents |-> sents, top |-> <<>>, blocks |-> <<NoteBlock>>]
        ELSE [sents |-> sents, top |-> top,
              blocks |-> BlocksFrom(top, 0, <<>>, max_blocks, bullets_per_block)]

(***************************************************************************)
(* build_mcq                                                               *)
(***************************************************************************)
\* n: int = 6
McqDefaultCount == 6

\* top_terms(text, k=50)
McqTermCount == 50

\* if len(terms) < 6
MinMcqTerms == 6

\* [d for d in terms if d != t][:12]
DistractorPool == 12

\* distractors[:3]
DistractorCount == 3

\* the fallback of a text with fewer than six terms
SparseFallback ==
    [q       |-> [stem |-> "sparse-fallback", sent |-> <<>>],
     choices |-> << <<"fast-reading">>, <<"auto-summary">>,
                    <<"question-review">>, <<"all-of-the-above">> >>,
     answer  |-> 3,
     explain |-> [text |-> "sparse-fallback", term |-> <<>>]]

\* the fallback of a text none of whose terms is found in a sentence
GenericFallback ==
    [q       |-> [stem |-> "generic-fallback", sent |-> <<>>],
     choices |-> << <<"less-time">>, <<"deeper-understanding">>,
                    <<"retention">>, <<"all-of-the-above">> >>,
     answer  |-> 3,
     explain |-> [text |-> "generic-fallback", term |-> <<>>]]

\* next((s for s in sents if re.search(...)), None): the index of the first
\* sentence that holds the term, 0 for None
FirstSentenceWith(sents, t) ==
    IF \E j \in DOMAIN sents : SearchWord(sents[j], t)
    THEN First(1, Len(sents), LAMBDA j : SearchWord(sents[j], t))
    ELSE 0

\* Distractors that does not leave out the correct term.
DistractorsUnfiltered(terms, t) == Take(terms, DistractorPool)

\* SparseVocabulary that also takes a text of exactly MinMcqTerms terms.
SparseVocabularyInclusive(ts) == Len(ts) <= MinMcqTerms

\* if len(terms) < 6
SparseVocabulary(ts) == Len(ts) < MinMcqTerms

\* CountReached that lets one more question through.
CountReachedLate(count, limit) == count > limit

\* if i >= n: break
CountReached(count, limit) == count >= limit

\* AfterLoop without the fallback.
AfterLoopNoFallback(questions) == questions

\* if not qs: qs = [the generic fallback]
AfterLoop(questions) == IF questions = <<>> THEN <<GenericFallback>> ELSE questions

\* [d for d in terms if d != t][:12]
Distractors(terms, t) == Take(SelectSeq(terms, LAMBDA d : d # t), DistractorPool)

\* the sequences of m distinct members of 1..len
Arrangements(m, len) ==
    {g \in [1..m -> 1..len] : \A a, b \in 1..m : g[a] = g[b] => a = b}

\* the arrangements of the four choices
ChoiceOrders == Arrangements(DistractorCount + 1, DistractorCount + 1)

\* random.shuffle(choices): every arrangement of the choices is a possible
\* outcome
Shuffles(x) ==
    IF Len(x) = DistractorCount + 1
    THEN {[j \in DOMAIN x |-> x[f[j]]] : f \in ChoiceOrders}
    ELSE {[j \in DOMAIN x |-> x[f[j]]] : f \in Arrangements(Len(x), Len(x))}

\* random.shuffle(distractors); distractors[:3]: every sequence of three
\* distinct members of the pool is a possible outcome
ShuffledHeads(pool) ==
    LET m == IF Len(pool) < DistractorCount THEN Len(pool) ELSE DistractorCount
    IN  {[j \in 1..m |-> pool[f[j]]] : f \in Arrangements(m, Len(pool))}

\* choices.index(t), counted from 0
IndexOf(choices, t) == First(1, Len(choices), LAMBDA j : choices[j] = t) - 1

\* MCQ(q=..., choices=choices, answer=answer_idx, explain=...); sent is
\* clean_text(sent)
Question(sent, choices, t) ==
    [q       |-> [stem |-> "complete", sent |-> sent],
     choices |-> choices,
     answer  |-> IndexOf(choices, t),
     explain |-> [text |-> "term", term |-> t]]

(***************************************************************************)
(* make_response_from_text and the endpoints                               *)
(***************************************************************************)
\* if len(text) < 80
MinTextLen == 80

NoResponse ==
    [status |-> 0, detail |-> "none", ok |-> FALSE, summary_blocks |-> <<>>, mcq |-> <<>>]

\* HTTPException(status_code, detail) or JSONResponse(status_code, {"ok": False})
ErrorResponse(status, detail) ==
    [status |-> status, detail |-> detail, ok |-> FALSE, summary_blocks |-> <<>>, mcq |-> <<>>]

\* AIResponse(ok=True, summary_blocks=blocks, mcq=mcq)
AIResponse(blocks, mcq) ==
    [status |-> 200, detail |-> "none", ok |-> TRUE, summary_blocks |-> blocks, mcq |-> mcq]

(***************************************************************************)
(* Documents: the texts that the extractors hand to the pipeline.          *)
(***************************************************************************)
\* 41 characters; the term alpha, three times
FragAlpha ==
    <<"A","l","p","h","a"," ","i","s"," ","t","h","e"," ","a","l","p","h",
      "a"," ","o","f"," ","t","h","i","s"," ","a","n","d"," ","t","h","e",
      " ","a","l","p","h","a","."," "," ","\n">>

\* 31 characters; the term alpha, once
FragAlphaShort ==
    <<"t","h","e"," ","a","l","p","h","a"," ","i","s"," ","a","n"," ","a",
      "b"," ","o","f"," ","c","d"," ","i","n"," ","e","f","?","\t">>

\* 30 characters, one too few for a sentence; the term omega
FragThirty ==
    <<"a","n"," ","o","m","e","g","a"," ","i","s"," ","o","f"," ","n","o",
      " ","u","s","e"," ","t","o"," ","u","s"," ","a","!"," ">>

\* five short fragments, four distinct terms (gamma twice)
FragTerms4 ==
    <<"g","a","m","m","a","."," ","d","e","l","t","a","!"," ","G","a","m",
      "m","a","?"," ","s","i","g","m","a","1","."," ","k","a","p","p","a",
      "U+061F"," ">>

\* six short fragments, five distinct terms
FragTerms == FragTerms4 \o <<"i","t","'","s","-","o","k","."," ">>

\* three short fragments, two distinct terms (gamma twice)
FragTerms2 == SubSeq(FragTerms4, 1, 21)

\* no term, white space to normalize
FragJunk ==
    <<" ","\n","9","9"," ","_","x"," ","-","y",".","\n"," ">>

\* 29 characters; stop words and the term beta, three times
FragBeta ==
    <<"t","h","i","s"," ","b","e","t","a"," ","w","i","t","h"," ","b","e",
      "t","a"," ","a","n","d"," ","B","e","t","a","!"," ">>

\* 32 characters, no term
FragPlain ==
    <<"a","b"," ","c","d"," ","e","f"," ","g","h"," ","i","j"," ","k","l",
      " ","m","n"," ","o","p"," ","q","r"," ","s","t"," ","u","."," ">>

\* 34 characters; the term beta, twice
FragBetaLong ==
    <<"b","e","t","a"," ","i","s"," ","t","h","e"," ","b","e","t","a"," ",
      "o","f"," ","a","l","l"," ","t","h","e"," ","a","b"," ","c","d","?",
      " ">>

Fragments ==
    {FragAlpha, FragAlphaShort, FragThirty, FragTerms2, FragJunk, FragBeta}

\* the longest document built from fragments, in fragments
MaxFrags == 3

RECURSIVE FragDocs(_)
FragDocs(m) ==
    IF m = 0 THEN {<<>>}
    ELSE LET shorter == FragDocs(m - 1)
         IN  shorter \cup {d \o f : d \in shorter, f \in Fragments}

\* s repeated m times
Rep(s, m) == [p \in 1..(m * Len(s)) |-> s[((p - 1) % Len(s)) + 1]]

\* the most repetitions of a sentence: one more than the summary holds
MaxRep == 16

\* the numbers of repetitions: around a block and around the whole summary
RepCounts ==
    {0, BulletsPerBlock - 1, BulletsPerBlock, MaxRep - 2, MaxRep - 1, MaxRep}

\* a first sentence and copies of a second one
RepDocs ==
    LET S == {FragAlpha, FragAlphaShort, FragPlain}
    IN  {head \o Rep(body, m) : head \in S, body \in S, m \in RepCounts}

\* 32 characters; the term omega, once
FragOmega ==
    <<"a","n"," ","o","m","e","g","a"," ","i","s"," ","o","f"," ","n","o",
      " ","u","s","e"," ","t","o"," ","u","s"," ","a","l","l","!"," ">>

\* a first sentence and copies of another sentence of the same score
TieDocs ==
    {FragAlphaShort \o Rep(FragOmega, m) : m \in {MaxRep - 1, MaxRep}}

\* m distinct terms "waax", "wabx", ..., each a fragment of its own
TermLetters == <<"a","b","c","d","e","f","g","h">>

TermDoc(m) ==
    [p \in 1..(6 * m) |->
        LET w == (p - 1) \div 6
            o == (p - 1) % 6
        IN  CASE o = 0 -> "w"
              [] o = 1 -> TermLetters[(w \div 8) + 1]
              [] o = 2 -> TermLetters[(w % 8) + 1]
              [] o = 3 -> "x"
              [] o = 4 -> "."
              [] OTHER -> " "]

\* as many terms as top_terms is asked for, one fewer and one more
TermCounts ==
    {MinMcqTerms - 1, MinMcqTerms, SummaryTermCount, SummaryTermCount + 1,
     McqTermCount, McqTermCount + 1}

TermDocs == {TermDoc(m) \o tail : m \in TermCounts, tail \in {<<>>, FragPlain}}

\* a text of n characters
LenDoc(n) == [p \in 1..n |-> "a"]

LenDocs == {LenDoc(n) : n \in {50, MinTextLen - 1, MinTextLen}}

\* texts of six terms or more: one term has a sentence, no term has one
QuizDocs ==
    {FragTerms \o FragAlphaShort \o FragThirty,
     FragTerms \o FragThirty \o FragBeta,
     FragAlpha \o FragTerms}

\* the texts handed to make_response_from_text
CoreDocs ==
    FragDocs(MaxFrags) \cup RepDocs \cup TieDocs \cup TermDocs \cup LenDocs
        \cup QuizDocs

\* the texts handed to build_mcq: two terms with a sentence and four
\* without, one with, none with, too few terms, more terms than the pool of
\* distractors holds
McqDocs ==
    {clean_text(FragBetaLong \o FragTerms4 \o FragAlpha),
     clean_text(FragTerms \o FragAlphaShort \o FragThirty),
     clean_text(FragTerms \o FragThirty \o FragBeta),
     clean_text(FragTerms4 \o FragAlpha \o FragPlain),
     clean_text(TermDoc(DistractorPool + 1) \o FragAlpha)}

\* the largest question count asked of build_mcq
MaxCount == 2

\* the largest term count asked of top_terms
MaxTerms == 3

\* the documents behind the requests
HttpDocs == {FragAlpha \o FragTerms2 \o FragAlphaShort, FragThirty \o FragBeta}

\* 'Application/PDF'
CtPdf ==
    <<"A","p","p","l","i","c","a","t","i","o","n","/","P","D","F">>

\* 'application/vnd.openxmlformats-officedocument.presentationml.presentation'
CtPptx ==
    <<"a","p","p","l","i","c","a","t","i","o","n","/","v","n","d",".","o",
      "p","e","n","x","m","l","f","o","r","m","a","t","s","-","o","f","f",
      "i","c","e","d","o","c","u","m","e","n","t",".","p","r","e","s","e",
      "n","t","a","t","i","o","n","m","l",".","p","r","e","s","e","n","t",
      "a","t","i","o","n">>

\* 'application/msword'
CtDoc ==
    <<"a","p","p","l","i","c","a","t","i","o","n","/","m","s","w","o","r",
      "d">>

\* 'text/html'
CtHtml == <<"t","e","x","t","/","h","t","m","l">>

\* no Content-Type header: r.headers.get("Content-Type") or ""
CtNone == <<>>

ContentTypes == {CtPdf, CtPptx, CtDoc, CtHtml, CtNone}

\* 'a.PDF'
NamePdf == <<"a",".","P","D","F">>

\* 'b.pptx'
NamePptx == <<"b",".","p","p","t","x">>

\* 'c.docx'
NameDocx == <<"c",".","d","o","c","x">>

\* 'd.bin'
NameBin == <<"d",".","b","i","n">>

\* the URLs of process_pdf and the file names of process_pdf_upload
Names == {NamePdf, NamePptx, NameDocx, NameBin}

ExtPdf == <<".","p","d","f">>

ExtPptx == <<".","p","p","t","x">>

ExtDocx == <<".","d","o","c","x">>

KwPdf == <<"p","d","f">>

KwPresentation == <<"p","r","e","s","e","n","t","a","t","i","o","n">>

KwWord == <<"w","o","r","d">>

(***************************************************************************)
(* State.                                                                  *)
(***************************************************************************)
VARIABLES
    entry,        \* the function that was called
    pc,           \* the position in it
    req,          \* the request: URL or file name, the document behind it
    content_type, \* process_pdf: the lower-cased Content-Type header
    raw,          \* the text handed over by the extractor or the caller
    text,         \* make_response_from_text: the normalized text
    n,            \* build_mcq: the number of questions asked for
    k,            \* top_terms: the number of terms asked for
    sum_sents,    \* build_summary_blocks: sents
    sum_top,      \* build_summary_blocks: top
    blocks,       \* build_summary_blocks: the blocks returned
    terms,        \* build_mcq: terms (top_terms: the list returned)
    mcq_sents,    \* build_mcq: sents
    ti,           \* build_mcq: the position of the loop in terms
    used,         \* build_mcq: used
    i,            \* build_mcq: i
    qs,           \* build_mcq: qs
    calls,        \* the functions of the pipeline entered so far, in order
    shuffles,     \* the number of calls of random.shuffle so far
    failure,      \* what went wrong, if anything
    response      \* the response of the request

vars ==
    <<entry, pc, req, content_type, raw, text, n, k, sum_sents, sum_top, blocks,
      terms, mcq_sents, ti, used, i, qs, calls, shuffles, failure, response>>

NoRequest == [name |-> <<>>, empty |-> FALSE, doc |-> <<>>]

Requests ==
    {[name |-> nm, empty |-> FALSE, doc |-> d] : nm \in Names, d \in HttpDocs}
        \cup {[name |-> NamePdf, empty |-> FALSE, doc |-> d] : d \in QuizDocs}
        \cup {[name |-> NamePdf, empty |-> TRUE, doc |-> <<>>]}

\* the locals before the first assignment
InitLocals ==
    /\ content_type = <<>>
    /\ text = <<>>
    /\ sum_sents = <<>>
    /\ sum_top = <<>>
    /\ blocks = <<>>
    /\ terms = <<>>
    /\ mcq_sents = <<>>
    /\ ti = 0
    /\ used = {}
    /\ i = 0
    /\ qs = <<>>
    /\ calls = <<>>
    /\ shuffles = 0
    /\ failure = "none"
    /\ response = NoResponse

\* a request to /process_pdf or /process_pdf_upload
InitRequest ==
    /\ entry \in {"process_pdf", "process_pdf_upload"}
    /\ pc = entry
    /\ req \in Requests
    /\ (req.empty => entry = "process_pdf_upload")
    /\ raw = <<>>
    /\ n = McqDefaultCount
    /\ k = 0

\* make_response_from_text(text)
InitCore ==
    /\ entry = "make_response_from_text"
    /\ pc = entry
    /\ req = NoRequest
    /\ raw \in CoreDocs
    /\ n = McqDefaultCount
    /\ k = 0

\* build_mcq(text, n)
InitMcq ==
    /\ entry = "build_mcq"
    /\ pc = entry
    /\ req = NoRequest
    /\ raw \in McqDocs
    /\ n \in 1..MaxCount
    /\ k = 0

\* top_terms(text, k) and naive_sentences(text)
InitFunction ==
    /\ entry \in {"top_terms", "naive_sentences"}
    /\ pc = entry
    /\ req = NoRequest
    /\ raw \in FragDocs(MaxFrags)
    /\ n = 0
    /\ k \in (IF entry = "top_terms" THEN 1..MaxTerms ELSE {0})

\* the program: a request arrives
Init == InitRequest /\ InitLocals

\* make_response_from_text is called
CoreInit == InitCore /\ InitLocals

\* build_mcq is called
McqInit == InitMcq /\ InitLocals

\* top_terms or naive_sentences is called
FunctionInit == InitFunction /\ InitLocals

(***************************************************************************)
(* process_pdf                                                             *)
(***************************************************************************)
\* r = requests.get(req.url, timeout=40); r.raise_for_status()
process_pdf_download ==
    /\ pc = "process_pdf"
    /\ \E ok \in BOOLEAN, ct \in ContentTypes :
        IF ok
        THEN /\ content_type' = Lower(ct)
             /\ pc' = "process_pdf_extract"
             /\ UNCHANGED <<failure, response>>
        ELSE /\ response' = ErrorResponse(400, "download-error")
             /\ failure' = "download"
             /\ pc' = "done"
             /\ UNCHANGED content_type
    /\ UNCHANGED <<entry, req, raw, text, n, k, sum_sents, sum_top, blocks, terms,
                   mcq_sents, ti, used, i, qs, calls, shuffles>>

\* the extractor that process_pdf chooses
UrlKind(ct, url) ==
    LET url_lower == Lower(url)
    IN  IF Contains(ct, KwPdf) \/ EndsWith(url_lower, ExtPdf) THEN "pdf"
        ELSE IF Contains(ct, KwPresentation) \/ EndsWith(url_lower, ExtPptx) THEN "pptx"
        ELSE IF Contains(ct, KwWord) \/ EndsWith(url_lower, ExtDocx) THEN "docx"
        ELSE "fallback"

\* the extraction; the extractor raises or returns the text of the document
process_pdf_extract ==
    /\ pc = "process_pdf_extract"
    /\ \E raises \in BOOLEAN :
        IF raises
        THEN /\ response' = IF UrlKind(content_type, req.name) = "fallback"
                            THEN ErrorResponse(415, "unsupported-file-type")
                            ELSE ErrorResponse(422, "extract-error")
             /\ failure' = "extractor_raised"
             /\ pc' = "done"
             /\ UNCHANGED raw
        ELSE /\ raw' = req.doc
             /\ pc' = "make_response_from_text"
             /\ UNCHANGED <<failure, response>>
    /\ UNCHANGED <<entry, req, content_type, text, n, k, sum_sents, sum_top, blocks,
                   terms, mcq_sents, ti, used, i, qs, calls, shuffles>>

(***************************************************************************)
(* process_pdf_upload                                                      *)
(***************************************************************************)
\* the extractor that process_pdf_upload chooses
NameKind(filename) ==
    LET name == Lower(filename)
    IN  IF EndsWith(name, ExtPdf) THEN "pdf"
        ELSE IF EndsWith(name, ExtPptx) THEN "pptx"
        ELSE IF EndsWith(name, ExtDocx) THEN "docx"
        ELSE "unsupported"

\* the status of an exception of an extractor in process_pdf_upload
UploadExtractError == ErrorResponse(500, "server-error")

\* the handler up to the call of make_response_from_text
process_pdf_upload_extract ==
    /\ pc = "process_pdf_upload"
    /\ \E raises \in BOOLEAN :
        IF req.empty
        THEN /\ response' = ErrorResponse(400, "empty-file")
             /\ failure' = "empty_upload"
             /\ pc' = "done"
             /\ UNCHANGED raw
        ELSE IF NameKind(req.name) = "unsupported"
        THEN /\ response' = ErrorResponse(415, "unsupported-file-type")
             /\ failure' = "unsupported_type"
             /\ pc' = "done"
             /\ UNCHANGED raw
        ELSE IF raises
        THEN /\ response' = UploadExtractError
             /\ failure' = "extractor_raised"
             /\ pc' = "done"
             /\ UNCHANGED raw
        ELSE /\ raw' = req.doc
             /\ pc' = "make_response_from_text"
             /\ UNCHANGED <<failure, response>>
    /\ UNCHANGED <<entry, req, content_type, text, n, k, sum_sents, sum_top, blocks,
                   terms, mcq_sents, ti, used, i, qs, calls, shuffles>>

(***************************************************************************)
(* make_response_from_text                                                 *)
(***************************************************************************)
\* the gate that also rejects a text of exactly MinTextLen characters
TooShortInclusive(t) == Len(t) <= MinTextLen

\* the minimum-length gate: len(text) < 80
TooShort(t) == Len(t) < MinTextLen

\* text = clean_text(text); the gate
make_response_from_text ==
    /\ pc = "make_response_from_text"
    /\ text' = clean_text(raw)
    /\ calls' = Append(calls, "make_response_from_text")
    /\ IF TooShort(text')
       THEN /\ response' = ErrorResponse(422, "insufficient-text")
            /\ failure' = "insufficient_text"
            /\ pc' = "done"
       ELSE /\ pc' = "build_summary_blocks"
            /\ UNCHANGED <<failure, response>>
    /\ UNCHANGED <<entry, req, content_type, raw, n, k, sum_sents, sum_top, blocks,
                   terms, mcq_sents, ti, used, i, qs, shuffles>>

\* blocks = build_summary_blocks(text)
call_build_summary_blocks ==
    /\ pc = "build_summary_blocks"
    /\ LET r == build_summary_blocks(text, MaxBlocks, BulletsPerBlock)
       IN  /\ sum_sents' = r.sents
           /\ sum_top' = r.top
           /\ blocks' = r.blocks
           /\ calls' = calls \o (IF r.sents = <<>>
                                 THEN <<"build_summary_blocks", "naive_sentences">>
                                 ELSE <<"build_summary_blocks", "naive_sentences",
                                        "top_terms">>)
    /\ pc' = "build_mcq"
    /\ UNCHANGED <<entry, req, content_type, raw, text, n, k, terms, mcq_sents, ti,
                   used, i, qs, shuffles, failure, response>>

\* where build_mcq returns to
McqReturn == IF entry = "build_mcq" THEN "done" ELSE "respond"

\* the text build_mcq is called with
McqText == IF entry = "build_mcq" THEN raw ELSE text

\* build_mcq up to its loop: the terms, the fallback of a sparse vocabulary,
\* the sentences
build_mcq_start ==
    /\ pc = "build_mcq"
    /\ terms' = top_terms(McqText, McqTermCount)
    /\ IF SparseVocabulary(terms')
       THEN /\ qs' = <<SparseFallback>>
            /\ calls' = calls \o <<"build_mcq", "top_terms">>
            /\ pc' = McqReturn
            /\ UNCHANGED <<mcq_sents, ti>>
       ELSE /\ mcq_sents' = naive_sentences(McqText)
            /\ calls' = calls \o <<"build_mcq", "top_terms", "naive_sentences">>
            /\ ti' = 1
            /\ pc' = "mcq_loop"
            /\ UNCHANGED qs
    /\ UNCHANGED <<entry, req, content_type, raw, text, n, k, sum_sents, sum_top,
                   blocks, used, i, shuffles, failure, response>>

\* "continue": the term is used or no sentence holds it
Skipped(j) ==
    \/ terms[j] \in used
    \/ FirstSentenceWith(mcq_sents, terms[j]) = 0

\* the iterations that end in "continue", up to the next term that gets a
\* question or to the end of the terms
mcq_skip ==
    /\ pc = "mcq_loop"
    /\ ti <= Len(terms)
    /\ Skipped(ti)
    /\ ti' = First(ti, Len(terms), LAMBDA j : ~Skipped(j))
    /\ UNCHANGED <<entry, pc, req, content_type, raw, text, n, k, sum_sents, sum_top,
                   blocks, terms, mcq_sents, used, i, qs, calls, shuffles, failure,
                   response>>

\* an iteration that appends a question; the loop ends at n questions
mcq_question ==
    /\ pc = "mcq_loop"
    /\ ti <= Len(terms)
    /\ ~Skipped(ti)
    /\ LET t    == terms[ti]
           sent == clean_text(mcq_sents[FirstSentenceWith(mcq_sents, t)])
       IN  \E distractors \in ShuffledHeads(Distractors(terms, t)) :
           \E choices \in Shuffles(<<t>> \o distractors) :
               qs' = Append(qs, Question(sent, choices, t))
    /\ shuffles' = shuffles + 2
    /\ used' = used \cup {terms[ti]}
    /\ i' = i + 1
    /\ IF CountReached(i', n)
       THEN /\ pc' = McqReturn
            /\ UNCHANGED ti
       ELSE /\ ti' = ti + 1
            /\ UNCHANGED pc
    /\ UNCHANGED <<entry, req, content_type, raw, text, n, k, sum_sents, sum_top,
                   blocks, terms, mcq_sents, calls, failure, response>>

\* the terms are exhausted: the generic fallback if there is no question
mcq_exhausted ==
    /\ pc = "mcq_loop"
    /\ ti > Len(terms)
    /\ qs' = AfterLoop(qs)
    /\ pc' = McqReturn
    /\ UNCHANGED <<entry, req, content_type, raw, text, n, k, sum_sents, sum_top,
                   blocks, terms, mcq_sents, ti, used, i, calls, shuffles, failure,
                   response>>

\* return AIResponse(ok=True, summary_blocks=blocks, mcq=mcq)
respond ==
    /\ pc = "respond"
    /\ response' = AIResponse(blocks, qs)
    /\ pc' = "done"
    /\ UNCHANGED <<entry, req, content_type, raw, text, n, k, sum_sents, sum_top,
                   blocks, terms, mcq_sents, ti, used, i, qs, calls, shuffles, failure>>

\* top_terms(text, k), called by itself
call_top_terms ==
    /\ pc = "top_terms"
    /\ terms' = top_terms(raw, k)
    /\ calls' = Append(calls, "top_terms")
    /\ pc' = "done"
    /\ UNCHANGED <<entry, req, content_type, raw, text, n, k, sum_sents, sum_top,
                   blocks, mcq_sents, ti, used, i, qs, shuffles, failure, response>>

\* naive_sentences(text), called by itself
call_naive_sentences ==
    /\ pc = "naive_sentences"
    /\ sum_sents' = naive_sentences(raw)
    /\ calls' = Append(calls, "naive_sentences")
    /\ pc' = "done"
    /\ UNCHANGED <<entry, req, content_type, raw, text, n, k, sum_top, blocks, terms,
                   mcq_sents, ti, used, i, qs, shuffles, failure, response>>

\* the program: the two endpoints and the pipeline behind them
Next ==
    \/ process_pdf_download
    \/ process_pdf_extract
    \/ process_pdf_upload_extract
    \/ make_response_from_text
    \/ call_build_summary_blocks
    \/ build_mcq_start
    \/ mcq_skip
    \/ mcq_question
    \/ mcq_exhausted
    \/ respond

Spec == Init /\ [][Next]_vars

\* the pipeline by itself: make_response_from_text(text)
NextCore ==
    \/ make_response_from_text
    \/ call_build_summary_blocks
    \/ build_mcq_start
    \/ mcq_skip
    \/ mcq_question
    \/ mcq_exhausted
    \/ respond

SpecCore == CoreInit /\ [][NextCore]_vars

\* the question generator by itself: build_mcq(text, n)
NextMcq ==
    \/ build_mcq_start
    \/ mcq_skip
    \/ mcq_question
    \/ mcq_exhausted

SpecMcq == McqInit /\ [][NextMcq]_vars

\* the term extractor and the segmenter by themselves
NextFunction ==
    \/ call_top_terms
    \/ call_naive_sentences

SpecFunction == FunctionInit /\ [][NextFunction]_vars

(***************************************************************************)
(* Properties.                                                             *)
(***************************************************************************)
\* build_mcq has returned
McqReturned == "build_mcq" \in Range(calls) /\ pc \in {"respond", "done"}

\* the functions entered since build_mcq was called
McqCalls ==
    SubSeq(calls, First(1, Len(calls), LAMBDA j : calls[j] = "build_mcq"), Len(calls))

\* the questions that build_mcq generated from a term
IsGenerated(question) == question.explain.text = "term"

\* C1: in every generated question the choice at the answer index is the
\* term named in the explanation, and that term is among the choices exactly
\* once, whatever the shuffles did.
C1_AnswerIsTheTerm ==
    \A j \in DOMAIN qs :
        IsGenerated(qs[j]) =>
            /\ qs[j].answer \in 0..(Len(qs[j].choices) - 1)
            /\ qs[j].choices[qs[j].answer + 1] = qs[j].explain.term
            /\ Cardinality({m \in DOMAIN qs[j].choices :
                               qs[j].choices[m] = qs[j].explain.term}) = 1

\* C1: two questions were generated and the shuffle moved the correct term
\* of the second away from the front.
C1_Witness ==
    /\ pc = "done"
    /\ Len(qs) = 2
    /\ IsGenerated(qs[1])
    /\ IsGenerated(qs[2])
    /\ qs[2].answer = 2

\* C2: a normalized text below MinTextLen is rejected with 422 before
\* build_summary_blocks or build_mcq is entered and no AIResponse is made; a
\* text of MinTextLen characters or more is not rejected.
C2_LengthGate ==
    "make_response_from_text" \in Range(calls) =>
        IF Len(text) < MinTextLen
        THEN /\ pc = "done"
             /\ response = ErrorResponse(422, "insufficient-text")
             /\ calls = <<"make_response_from_text">>
             /\ blocks = <<>>
             /\ qs = <<>>
        ELSE /\ failure # "insufficient_text"
             /\ response.status # 422
             /\ pc = "done" => response.status = 200

\* C2: a text one character short of the threshold was rejected.
C2_Witness ==
    /\ pc = "done"
    /\ Len(text) = MinTextLen - 1
    /\ response.status = 422

\* C3: with fewer than MinMcqTerms terms build_mcq returns the sparse
\* fallback alone, without segmenting sentences and without a shuffle; with
\* more terms it never returns that fallback.
C3_SparseFallback ==
    McqReturned =>
        IF Len(terms) < MinMcqTerms
        THEN /\ qs = <<SparseFallback>>
             /\ McqCalls = <<"build_mcq", "top_terms">>
             /\ mcq_sents = <<>>
             /\ shuffles = 0
        ELSE \A j \in DOMAIN qs : qs[j] # SparseFallback

\* C3: a text of MinMcqTerms - 1 terms got the sparse fallback.
C3_Witness ==
    /\ McqReturned
    /\ Len(terms) = MinMcqTerms - 1
    /\ qs = <<SparseFallback>>

\* the bullets of the blocks, in block order
RECURSIVE AllBullets(_)
AllBullets(bs) ==
    IF bs = <<>> THEN <<>> ELSE Head(bs).bullets \o AllBullets(Tail(bs))

\* build_summary_blocks has just returned blocks of sentences
SummaryReturned == pc = "build_mcq" /\ sum_sents # <<>>

\* the scores of the sentences of the summary, in document order
SummaryScores ==
    LET ts == Range(top_terms(text, SummaryTermCount))
    IN  [j \in DOMAIN sum_sents |-> Score(sum_sents[j], ts)]

\* the number of sentences that score strictly higher than the first
HigherThanFirst ==
    LET sc == SummaryScores
    IN  Cardinality({j \in DOMAIN sc : sc[j] > sc[1]})

\* C4, as claimed: the first sentence is always among the bullets.
C4_FirstSentenceKept ==
    SummaryReturned => sum_sents[1] \in Range(AllBullets(blocks))

\* C4, amended: the first sentence is among the bullets when fewer than
\* max_blocks * bullets_per_block sentences score strictly higher than it.
C4_FirstSentenceKeptWithinBudget ==
    (SummaryReturned /\ HigherThanFirst < MaxBlocks * BulletsPerBlock)
        => sum_sents[1] \in Range(AllBullets(blocks))

\* C4: a document of more sentences than the summary holds whose first
\* sentence was kept.
C4_Witness ==
    /\ SummaryReturned
    /\ Len(sum_sents) > MaxBlocks * BulletsPerBlock
    /\ HigherThanFirst < MaxBlocks * BulletsPerBlock
    /\ \A j \in 2..Len(sum_sents) : sum_sents[j] # sum_sents[1]
    /\ sum_sents[1] \in Range(AllBullets(blocks))

\* C5: a text of MinTextLen characters or more gets a response with ok =
\* true, a summary of at least one block, each block with at least one
\* bullet, and at least one question; without a sentence the summary is the
\* explanatory block alone and the questions are a fallback.
C5_WellFormedResponse ==
    (pc = "done" /\ "make_response_from_text" \in Range(calls)
                 /\ Len(text) >= MinTextLen) =>
        /\ response.status = 200
        /\ response.ok
        /\ response.summary_blocks # <<>>
        /\ \A j \in DOMAIN response.summary_blocks :
               response.summary_blocks[j].bullets # <<>>
        /\ response.mcq # <<>>
        /\ sum_sents = <<>> =>
               /\ response.summary_blocks = <<NoteBlock>>
               /\ response.mcq \in {<<SparseFallback>>, <<GenericFallback>>}

\* C5: a text without a sentence, with terms enough for the loop, was
\* answered with the explanatory block and the generic fallback.
C5_Witness ==
    /\ pc = "done"
    /\ response.status = 200
    /\ response.summary_blocks = <<NoteBlock>>
    /\ response.mcq = <<GenericFallback>>

\* the words of the text that qualify as terms: lower-cased, longer than
\* MinTermLen, no stop words; in text order, with repetitions
QualifyingWords(t) ==
    LET ws == Lower(t)
        fw == FindWords(ws)
    IN  SelectSeq(fw, LAMBDA w : Len(w) > MinTermLen /\ w \notin StopWords)

\* C6: top_terms(text, k) returns distinct terms, as many as k or as the text
\* has, by non-increasing frequency, terms of equal frequency in the order
\* of their first occurrence; none is a stop word or shorter than four
\* characters, and every term left out ranks after the last one returned.
C6_TopTerms ==
    (entry = "top_terms" /\ pc = "done") =>
        LET qw       == QualifyingWords(raw)
            freq(w)  == Cardinality({p \in DOMAIN qw : qw[p] = w})
            first(w) == First(1, Len(qw), LAMBDA p : qw[p] = w)
            distinct == Cardinality(Range(qw))
            before(a, b) == \/ freq(a) > freq(b)
                            \/ (freq(a) = freq(b) /\ first(a) < first(b))
        IN  /\ Len(terms) = (IF k < distinct THEN k ELSE distinct)
            /\ \A a, b \in DOMAIN terms : a # b => terms[a] # terms[b]
            /\ \A a \in DOMAIN terms :
                   /\ terms[a] \in Range(qw)
                   /\ Len(terms[a]) > MinTermLen
                   /\ terms[a] \notin StopWords
            /\ \A a \in 1..(Len(terms) - 1) :
                   /\ freq(terms[a]) >= freq(terms[a + 1])
                   /\ before(terms[a], terms[a + 1])
            /\ \A w \in Range(qw) \ Range(terms) : before(terms[Len(terms)], w)

\* C6: fewer terms were asked for than the text has, and the two returned
\* first are equally frequent.
C6_Witness ==
    /\ entry = "top_terms"
    /\ pc = "done"
    /\ Len(terms) = k
    /\ k >= 2
    /\ LET qw == QualifyingWords(raw)
       IN  /\ Cardinality(Range(qw)) > k
           /\ Cardinality({p \in DOMAIN qw : qw[p] = terms[1]})
                  = Cardinality({p \in DOMAIN qw : qw[p] = terms[2]})

\* the fragments of the text, trimmed
TrimmedFragments(t) ==
    LET parts == SplitParts(t)
    IN  [p \in DOMAIN parts |-> Strip(parts[p])]

\* C7: every sentence of naive_sentences is longer than MinSentenceLen and
\* trimmed, and the sentences are the fragments longer than that, each one
\* once per occurrence, in the order of the text.
C7_Sentences ==
    (entry = "naive_sentences" /\ pc = "done") =>
        LET frags == TrimmedFragments(raw)
            long  == {p \in DOMAIN frags : Len(frags[p]) > MinSentenceLen}
            \* the position in frags of the j-th long fragment
            pos(j) == CHOOSE p \in long : Cardinality({q \in long : q < p}) = j - 1
        IN  /\ \A j \in DOMAIN sum_sents :
                   /\ Len(sum_sents[j]) > MinSentenceLen
                   /\ ~IsSpace(sum_sents[j][1])
                   /\ ~IsSpace(sum_sents[j][Len(sum_sents[j])])
            /\ Len(sum_sents) = Cardinality(long)
            /\ \A j \in DOMAIN sum_sents : sum_sents[j] = frags[pos(j)]

\* C7: a fragment of exactly MinSentenceLen characters was discarded and a
\* sentence that occurs twice was returned twice.
C7_Witness ==
    /\ entry = "naive_sentences"
    /\ pc = "done"
    /\ \E p \in DOMAIN TrimmedFragments(raw) :
           Len(TrimmedFragments(raw)[p]) = MinSentenceLen
    /\ Len(sum_sents) = 2
    /\ sum_sents[1] = sum_sents[2]

\* the sentences of seq that score v, in order
WithScore(seq, v, ts) == SelectSeq(seq, LAMBDA x : Score(x, ts) = v)

\* a is the beginning of b
IsPrefix(a, b) == Len(a) <= Len(b) /\ SubSeq(b, 1, Len(a)) = a

\* C8: build_summary_blocks selects the min(number of sentences, M*B)
\* sentences of highest score, by non-increasing score, equal scores in
\* document order, and cuts them into blocks of B: at most M blocks, all
\* but the last of B bullets, none empty, block j titled j, and the bullets
\* in block order are the selection.
C8_Blocks ==
    SummaryReturned =>
        LET budget == MaxBlocks * BulletsPerBlock
            ts     == Range(top_terms(text, SummaryTermCount))
            sc     == [j \in DOMAIN sum_top |-> Score(sum_top[j], ts)]
            scores == {Score(sum_sents[j], ts) : j \in DOMAIN sum_sents}
        IN  /\ Len(sum_top) = (IF Len(sum_sents) < budget THEN Len(sum_sents) ELSE budget)
            /\ \A j \in 1..(Len(sum_top) - 1) : sc[j] >= sc[j + 1]
            /\ \A v \in scores :
                   /\ IsPrefix(WithScore(sum_top, v, ts), WithScore(sum_sents, v, ts))
                   /\ WithScore(sum_top, v, ts) # WithScore(sum_sents, v, ts)
                          => \A j \in DOMAIN sum_top : sc[j] >= v
            /\ Len(blocks) \in 1..MaxBlocks
            /\ \A j \in DOMAIN blocks :
                   /\ blocks[j].title = [text |-> "key-ideas", num |-> j]
                   /\ Len(blocks[j].bullets) \in 1..BulletsPerBlock
                   /\ j < Len(blocks) => Len(blocks[j].bullets) = BulletsPerBlock
            /\ AllBullets(blocks) = sum_top

\* C8: more sentences than the summary holds, cut into M full blocks.
C8_Witness ==
    /\ SummaryReturned
    /\ Len(sum_sents) > MaxBlocks * BulletsPerBlock
    /\ Len(blocks) = MaxBlocks
    /\ Len(blocks[MaxBlocks].bullets) = BulletsPerBlock
    /\ sum_top[1] # sum_sents[1]

\* the terms that have a sentence, in ranked order
TermsWithSentence ==
    SelectSeq(terms, LAMBDA w : \E j \in DOMAIN mcq_sents : SearchWord(mcq_sents[j], w))

\* C9: with MinMcqTerms terms or more, build_mcq(text, n) returns between 1
\* and n questions; the terms of its questions are the first terms, in
\* ranked order, that have a sentence, each once and at most n of them; the
\* generic fallback is returned exactly when no term has a sentence.
C9_Loop ==
    (entry = "build_mcq" /\ pc = "done" /\ Len(terms) >= MinMcqTerms) =>
        LET matching == TermsWithSentence
        IN  /\ Len(qs) \in 1..n
            /\ IF matching = <<>>
               THEN qs = <<GenericFallback>>
               ELSE /\ \A j \in DOMAIN qs : IsGenerated(qs[j])
                    /\ [j \in DOMAIN qs |-> qs[j].explain.term] = Take(matching, n)

\* C9: the loop stopped at n questions although another term had a
\* sentence, after it had skipped no term.
C9_Witness ==
    /\ entry = "build_mcq"
    /\ pc = "done"
    /\ n = 1
    /\ Len(qs) = 1
    /\ IsGenerated(qs[1])
    /\ Len(TermsWithSentence) = 2

\* the request went to process_pdf and no extractor was chosen by type
IsFallbackType == entry = "process_pdf" /\ UrlKind(content_type, req.name) = "fallback"

\* C10: in both endpoints a download failure and an empty upload end in
\* 400, an unsupported type in 415, an exception of the extractor chosen
\* for the type in 422, and the HTTPException of the pipeline is passed on.
C10_ErrorCategories ==
    pc = "done" =>
        /\ failure = "download" => response.status = 400
        /\ failure = "empty_upload" => response.status = 400
        /\ failure = "unsupported_type" => response.status = 415
        /\ (failure = "extractor_raised" /\ IsFallbackType) => response.status = 415
        /\ (failure = "extractor_raised" /\ ~IsFallbackType) => response.status = 422
        /\ failure = "insufficient_text"
               => response = ErrorResponse(422, "insufficient-text")
        /\ failure = "none" => response.status = 200

=============================================================================
